---------------------------- MODULE Spec2Model ----------------------------
(***************************************************************************)
(* A model of reader/markdown_reader.py: class MarkdownReader.             *)
(*                                                                         *)
(* A text (Python str) is the sequence of its code points.  The state      *)
(* of one MarkdownReader object is its three fields (file_path, content,   *)
(* parsed_content); ret records the outcome of the last method call.       *)
(***************************************************************************)
EXTENDS Naturals, Sequences, FiniteSets

VARIABLES file_path, content, parsed_content, ret

vars == <<file_path, content, parsed_content, ret>>

(***************************************************************************)
(* Python values.  None is modelled by a value of the type of the field it *)
(* stands in: None for an Optional[str] (one value past the last code      *)
(* point, so distinct from every text), NoneDict for the Optional[Dict],   *)
(* NonePath for the Optional[Path].                                        *)
(***************************************************************************)
None == <<1114112>>

NoneDict == [none |-> TRUE]

NonePath == "None"

\* (not x) for an Optional[str]: None and the empty string are both falsy.
Falsy(s) == s = None \/ s = <<>>

\* (if self.parsed_content): None is falsy; a dict with seven keys is truthy.
TruthyDict(d) == d # NoneDict

(***************************************************************************)
(* Characters.  A character is its Unicode code point (Python's ord), and  *)
(* a text is a sequence of code points.  The character classes of the      *)
(* patterns are those of Python 3.11 (Unicode 14.0.0) on str: each is      *)
(* given by the table of the ranges of code points it holds.               *)
(***************************************************************************)
\* The printable ASCII characters, from the space (32) to the tilde (126);
\* the backquote (96) is named, as a string literal cannot hold it.
Ascii ==
    <<" ", "!", "\"", "#", "$", "%", "&", "'", "(", ")", "*", "+", ",", "-",
      ".", "/", "0", "1", "2", "3", "4", "5", "6", "7", "8", "9", ":", ";",
      "<", "=", ">", "?", "@", "A", "B", "C", "D", "E", "F", "G", "H", "I",
      "J", "K", "L", "M", "N", "O", "P", "Q", "R", "S", "T", "U", "V", "W",
      "X", "Y", "Z", "[", "\\", "]", "^", "_", "backquote", "a", "b", "c",
      "d", "e", "f", "g", "h", "i", "j", "k", "l", "m", "n", "o", "p", "q",
      "r", "s", "t", "u", "v", "w", "x", "y", "z", "{", "|", "}", "~">>

\* ord(c) of an ASCII character written as a string.
Ord(c) ==
    CASE c = "\t" -> 9
      [] c = "\n" -> 10
      [] c = "\f" -> 12
      [] c = "\r" -> 13
      [] OTHER -> 31 + CHOOSE k \in 1..Len(Ascii) : Ascii[k] = c

\* The text of a sequence of ASCII characters written as strings.
Txt(cs) == [k \in 1..Len(cs) |-> Ord(cs[k])]

Newline == Ord("\n")

Space == Ord(" ")

Hash == Ord("#")

Bang == Ord("!")

OpenBracket == Ord("[")

CloseBracket == Ord("]")

OpenParen == Ord("(")

CloseParen == Ord(")")

Colon == Ord(":")

Dot == Ord(".")

\* The characters of the bullet pattern [-*+].
BulletMarks == {Ord("-"), Ord("*"), Ord("+")}

\* The code points of the ranges <<first, last>> of table.
CharsOf(table) == UNION {r[1]..r[2] : r \in table}

\* The ranges of str.isspace, which str.strip() and the regex class \s use.
WhitespaceRanges ==
    {<<9, 13>>, <<28, 32>>, <<133, 133>>, <<160, 160>>, <<5760, 5760>>,
     <<8192, 8202>>, <<8232, 8233>>, <<8239, 8239>>, <<8287, 8287>>,
     <<12288, 12288>>}

Whitespace == CharsOf(WhitespaceRanges)

\* The ranges of the regex class \d: the decimal digits (str.isdecimal).
DigitRanges ==
    {<<48, 57>>, <<1632, 1641>>, <<1776, 1785>>, <<1984, 1993>>, <<2406,
     2415>>, <<2534, 2543>>, <<2662, 2671>>, <<2790, 2799>>, <<2918,
     2927>>, <<3046, 3055>>, <<3174, 3183>>, <<3302, 3311>>, <<3430,
     3439>>, <<3558, 3567>>, <<3664, 3673>>, <<3792, 3801>>, <<3872,
     3881>>, <<4160, 4169>>, <<4240, 4249>>, <<6112, 6121>>, <<6160,
     6169>>, <<6470, 6479>>, <<6608, 6617>>, <<6784, 6793>>, <<6800,
     6809>>, <<6992, 7001>>, <<7088, 7097>>, <<7232, 7241>>, <<7248,
     7257>>, <<42528, 42537>>, <<43216, 43225>>, <<43264, 43273>>,
     <<43472, 43481>>, <<43504, 43513>>, <<43600, 43609>>, <<44016,
     44025>>, <<65296, 65305>>, <<66720, 66729>>, <<68912, 68921>>,
     <<69734, 69743>>, <<69872, 69881>>, <<69942, 69951>>, <<70096,
     70105>>, <<70384, 70393>>, <<70736, 70745>>, <<70864, 70873>>,
     <<71248, 71257>>, <<71360, 71369>>, <<71472, 71481>>, <<71904,
     71913>>, <<72016, 72025>>, <<72784, 72793>>, <<73040, 73049>>,
     <<73120, 73129>>, <<92768, 92777>>, <<92864, 92873>>, <<93008,
     93017>>, <<120782, 120831>>, <<123200, 123209>>, <<123632,
     123641>>, <<125264, 125273>>, <<130032, 130041>>}

Digits == CharsOf(DigitRanges)

\* The ranges of the regex class \w: str.isalnum and the underscore.
WordRanges ==
    {<<48, 57>>, <<65, 90>>, <<95, 95>>, <<97, 122>>, <<170, 170>>,
     <<178, 179>>, <<181, 181>>, <<185, 186>>, <<188, 190>>, <<192,
     214>>, <<216, 246>>, <<248, 705>>, <<710, 721>>, <<736, 740>>,
     <<748, 748>>, <<750, 750>>, <<880, 884>>, <<886, 887>>, <<890,
     893>>, <<895, 895>>, <<902, 902>>, <<904, 906>>, <<908, 908>>,
     <<910, 929>>, <<931, 1013>>, <<1015, 1153>>, <<1162, 1327>>,
     <<1329, 1366>>, <<1369, 1369>>, <<1376, 1416>>, <<1488, 1514>>,
     <<1519, 1522>>, <<1568, 1610>>, <<1632, 1641>>, <<1646, 1647>>,
     <<1649, 1747>>, <<1749, 1749>>, <<1765, 1766>>, <<1774, 1788>>,
     <<1791, 1791>>, <<1808, 1808>>, <<1810, 1839>>, <<1869, 1957>>,
     <<1969, 1969>>, <<1984, 2026>>, <<2036, 2037>>, <<2042, 2042>>,
     <<2048, 2069>>, <<2074, 2074>>, <<2084, 2084>>, <<2088, 2088>>,
     <<2112, 2136>>, <<2144, 2154>>, <<2160, 2183>>, <<2185, 2190>>,
     <<2208, 2249>>, <<2308, 2361>>, <<2365, 2365>>, <<2384, 2384>>,
     <<2392, 2401>>, <<2406, 2415>>, <<2417, 2432>>, <<2437, 2444>>,
     <<2447, 2448>>, <<2451, 2472>>, <<2474, 2480>>, <<2482, 2482>>,
     <<2486, 2489>>, <<2493, 2493>>, <<2510, 2510>>, <<2524, 2525>>,
     <<2527, 2529>>, <<2534, 2545>>, <<2548, 2553>>, <<2556, 2556>>,
     <<2565, 2570>>, <<2575, 2576>>, <<2579, 2600>>, <<2602, 2608>>,
     <<2610, 2611>>, <<2613, 2614>>, <<2616, 2617>>, <<2649, 2652>>,
     <<2654, 2654>>, <<2662, 2671>>, <<2674, 2676>>, <<2693, 2701>>,
     <<2703, 2705>>, <<2707, 2728>>, <<2730, 2736>>, <<2738, 2739>>,
     <<2741, 2745>>, <<2749, 2749>>, <<2768, 2768>>, <<2784, 2785>>,
     <<2790, 2799>>, <<2809, 2809>>, <<2821, 2828>>, <<2831, 2832>>,
     <<2835, 2856>>, <<2858, 2864>>, <<2866, 2867>>, <<2869, 2873>>,
     <<2877, 2877>>, <<2908, 2909>>, <<2911, 2913>>, <<2918, 2927>>,
     <<2929, 2935>>, <<2947, 2947>>, <<2949, 2954>>, <<2958, 2960>>,
     <<2962, 2965>>, <<2969, 2970>>, <<2972, 2972>>, <<2974, 2975>>,
     <<2979, 2980>>, <<2984, 2986>>, <<2990, 3001>>, <<3024, 3024>>,
     <<3046, 3058>>, <<3077, 3084>>, <<3086, 3088>>, <<3090, 3112>>,
     <<3114, 3129>>, <<3133, 3133>>, <<3160, 3162>>, <<3165, 3165>>,
     <<3168, 3169>>, <<3174, 3183>>, <<3192, 3198>>, <<3200, 3200>>,
     <<3205, 3212>>, <<3214, 3216>>, <<3218, 3240>>, <<3242, 3251>>,
     <<3253, 3257>>, <<3261, 3261>>, <<3293, 3294>>, <<3296, 3297>>,
     <<3302, 3311>>, <<3313, 3314>>, <<3332, 3340>>, <<3342, 3344>>,
     <<3346, 3386>>, <<3389, 3389>>, <<3406, 3406>>, <<3412, 3414>>,
     <<3416, 3425>>, <<3430, 3448>>, <<3450, 3455>>, <<3461, 3478>>,
     <<3482, 3505>>, <<3507, 3515>>, <<3517, 3517>>, <<3520, 3526>>,
     <<3558, 3567>>, <<3585, 3632>>, <<3634, 3635>>, <<3648, 3654>>,
     <<3664, 3673>>, <<3713, 3714>>, <<3716, 3716>>, <<3718, 3722>>,
     <<3724, 3747>>, <<3749, 3749>>, <<3751, 3760>>, <<3762, 3763>>,
     <<3773, 3773>>, <<3776, 3780>>, <<3782, 3782>>, <<3792, 3801>>,
     <<3804, 3807>>, <<3840, 3840>>, <<3872, 3891>>, <<3904, 3911>>,
     <<3913, 3948>>, <<3976, 3980>>, <<4096, 4138>>, <<4159, 4169>>,
     <<4176, 4181>>, <<4186, 4189>>, <<4193, 4193>>, <<4197, 4198>>,
     <<4206, 4208>>, <<4213, 4225>>, <<4238, 4238>>, <<4240, 4249>>,
     <<4256, 4293>>, <<4295, 4295>>, <<4301, 4301>>, <<4304, 4346>>,
     <<4348, 4680>>, <<4682, 4685>>, <<4688, 4694>>, <<4696, 4696>>,
     <<4698, 4701>>, <<4704, 4744>>, <<4746, 4749>>, <<4752, 4784>>,
     <<4786, 4789>>, <<4792, 4798>>, <<4800, 4800>>, <<4802, 4805>>,
     <<4808, 4822>>, <<4824, 4880>>, <<4882, 4885>>, <<4888, 4954>>,
     <<4969, 4988>>, <<4992, 5007>>, <<5024, 5109>>, <<5112, 5117>>,
     <<5121, 5740>>, <<5743, 5759>>, <<5761, 5786>>, <<5792, 5866>>,
     <<5870, 5880>>, <<5888, 5905>>, <<5919, 5937>>, <<5952, 5969>>,
     <<5984, 5996>>, <<5998, 6000>>, <<6016, 6067>>, <<6103, 6103>>,
     <<6108, 6108>>, <<6112, 6121>>, <<6128, 6137>>, <<6160, 6169>>,
     <<6176, 6264>>, <<6272, 6276>>, <<6279, 6312>>, <<6314, 6314>>,
     <<6320, 6389>>, <<6400, 6430>>, <<6470, 6509>>, <<6512, 6516>>,
     <<6528, 6571>>, <<6576, 6601>>, <<6608, 6618>>, <<6656, 6678>>,
     <<6688, 6740>>, <<6784, 6793>>, <<6800, 6809>>, <<6823, 6823>>,
     <<6917, 6963>>, <<6981, 6988>>, <<6992, 7001>>, <<7043, 7072>>,
     <<7086, 7141>>, <<7168, 7203>>, <<7232, 7241>>, <<7245, 7293>>,
     <<7296, 7304>>, <<7312, 7354>>, <<7357, 7359>>, <<7401, 7404>>,
     <<7406, 7411>>, <<7413, 7414>>, <<7418, 7418>>, <<7424, 7615>>,
     <<7680, 7957>>, <<7960, 7965>>, <<7968, 8005>>, <<8008, 8013>>,
     <<8016, 8023>>, <<8025, 8025>>, <<8027, 8027>>, <<8029, 8029>>,
     <<8031, 8061>>, <<8064, 8116>>, <<8118, 8124>>, <<8126, 8126>>,
     <<8130, 8132>>, <<8134, 8140>>, <<8144, 8147>>, <<8150, 8155>>,
     <<8160, 8172>>, <<8178, 8180>>, <<8182, 8188>>, <<8304, 8305>>,
     <<8308, 8313>>, <<8319, 8329>>, <<8336, 8348>>, <<8450, 8450>>,
     <<8455, 8455>>, <<8458, 8467>>, <<8469, 8469>>, <<8473, 8477>>,
     <<8484, 8484>>, <<8486, 8486>>, <<8488, 8488>>, <<8490, 8493>>,
     <<8495, 8505>>, <<8508, 8511>>, <<8517, 8521>>, <<8526, 8526>>,
     <<8528, 8585>>, <<9312, 9371>>, <<9450, 9471>>, <<10102, 10131>>,
     <<11264, 11492>>, <<11499, 11502>>, <<11506, 11507>>, <<11517,
     11517>>, <<11520, 11557>>, <<11559, 11559>>, <<11565, 11565>>,
     <<11568, 11623>>, <<11631, 11631>>, <<11648, 11670>>, <<11680,
     11686>>, <<11688, 11694>>, <<11696, 11702>>, <<11704, 11710>>,
     <<11712, 11718>>, <<11720, 11726>>, <<11728, 11734>>, <<11736,
     11742>>, <<11823, 11823>>, <<12293, 12295>>, <<12321, 12329>>,
     <<12337, 12341>>, <<12344, 12348>>, <<12353, 12438>>, <<12445,
     12447>>, <<12449, 12538>>, <<12540, 12543>>, <<12549, 12591>>,
     <<12593, 12686>>, <<12690, 12693>>, <<12704, 12735>>, <<12784,
     12799>>, <<12832, 12841>>, <<12872, 12879>>, <<12881, 12895>>,
     <<12928, 12937>>, <<12977, 12991>>, <<13312, 19903>>, <<19968,
     42124>>, <<42192, 42237>>, <<42240, 42508>>, <<42512, 42539>>,
     <<42560, 42606>>, <<42623, 42653>>, <<42656, 42735>>, <<42775,
     42783>>, <<42786, 42888>>, <<42891, 42954>>, <<42960, 42961>>,
     <<42963, 42963>>, <<42965, 42969>>, <<42994, 43009>>, <<43011,
     43013>>, <<43015, 43018>>, <<43020, 43042>>, <<43056, 43061>>,
     <<43072, 43123>>, <<43138, 43187>>, <<43216, 43225>>, <<43250,
     43255>>, <<43259, 43259>>, <<43261, 43262>>, <<43264, 43301>>,
     <<43312, 43334>>, <<43360, 43388>>, <<43396, 43442>>, <<43471,
     43481>>, <<43488, 43492>>, <<43494, 43518>>, <<43520, 43560>>,
     <<43584, 43586>>, <<43588, 43595>>, <<43600, 43609>>, <<43616,
     43638>>, <<43642, 43642>>, <<43646, 43695>>, <<43697, 43697>>,
     <<43701, 43702>>, <<43705, 43709>>, <<43712, 43712>>, <<43714,
     43714>>, <<43739, 43741>>, <<43744, 43754>>, <<43762, 43764>>,
     <<43777, 43782>>, <<43785, 43790>>, <<43793, 43798>>, <<43808,
     43814>>, <<43816, 43822>>, <<43824, 43866>>, <<43868, 43881>>,
     <<43888, 44002>>, <<44016, 44025>>, <<44032, 55203>>, <<55216,
     55238>>, <<55243, 55291>>, <<63744, 64109>>, <<64112, 64217>>,
     <<64256, 64262>>, <<64275, 64279>>, <<64285, 64285>>, <<64287,
     64296>>, <<64298, 64310>>, <<64312, 64316>>, <<64318, 64318>>,
     <<64320, 64321>>, <<64323, 64324>>, <<64326, 64433>>, <<64467,
     64829>>, <<64848, 64911>>, <<64914, 64967>>, <<65008, 65019>>,
     <<65136, 65140>>, <<65142, 65276>>, <<65296, 65305>>, <<65313,
     65338>>, <<65345, 65370>>, <<65382, 65470>>, <<65474, 65479>>,
     <<65482, 65487>>, <<65490, 65495>>, <<65498, 65500>>, <<65536,
     65547>>, <<65549, 65574>>, <<65576, 65594>>, <<65596, 65597>>,
     <<65599, 65613>>, <<65616, 65629>>, <<65664, 65786>>, <<65799,
     65843>>, <<65856, 65912>>, <<65930, 65931>>, <<66176, 66204>>,
     <<66208, 66256>>, <<66273, 66299>>, <<66304, 66339>>, <<66349,
     66378>>, <<66384, 66421>>, <<66432, 66461>>, <<66464, 66499>>,
     <<66504, 66511>>, <<66513, 66517>>, <<66560, 66717>>, <<66720,
     66729>>, <<66736, 66771>>, <<66776, 66811>>, <<66816, 66855>>,
     <<66864, 66915>>, <<66928, 66938>>, <<66940, 66954>>, <<66956,
     66962>>, <<66964, 66965>>, <<66967, 66977>>, <<66979, 66993>>,
     <<66995, 67001>>, <<67003, 67004>>, <<67072, 67382>>, <<67392,
     67413>>, <<67424, 67431>>, <<67456, 67461>>, <<67463, 67504>>,
     <<67506, 67514>>, <<67584, 67589>>, <<67592, 67592>>, <<67594,
     67637>>, <<67639, 67640>>, <<67644, 67644>>, <<67647, 67669>>,
     <<67672, 67702>>, <<67705, 67742>>, <<67751, 67759>>, <<67808,
     67826>>, <<67828, 67829>>, <<67835, 67867>>, <<67872, 67897>>,
     <<67968, 68023>>, <<68028, 68047>>, <<68050, 68096>>, <<68112,
     68115>>, <<68117, 68119>>, <<68121, 68149>>, <<68160, 68168>>,
     <<68192, 68222>>, <<68224, 68255>>, <<68288, 68295>>, <<68297,
     68324>>, <<68331, 68335>>, <<68352, 68405>>, <<68416, 68437>>,
     <<68440, 68466>>, <<68472, 68497>>, <<68521, 68527>>, <<68608,
     68680>>, <<68736, 68786>>, <<68800, 68850>>, <<68858, 68899>>,
     <<68912, 68921>>, <<69216, 69246>>, <<69248, 69289>>, <<69296,
     69297>>, <<69376, 69415>>, <<69424, 69445>>, <<69457, 69460>>,
     <<69488, 69505>>, <<69552, 69579>>, <<69600, 69622>>, <<69635,
     69687>>, <<69714, 69743>>, <<69745, 69746>>, <<69749, 69749>>,
     <<69763, 69807>>, <<69840, 69864>>, <<69872, 69881>>, <<69891,
     69926>>, <<69942, 69951>>, <<69956, 69956>>, <<69959, 69959>>,
     <<69968, 70002>>, <<70006, 70006>>, <<70019, 70066>>, <<70081,
     70084>>, <<70096, 70106>>, <<70108, 70108>>, <<70113, 70132>>,
     <<70144, 70161>>, <<70163, 70187>>, <<70272, 70278>>, <<70280,
     70280>>, <<70282, 70285>>, <<70287, 70301>>, <<70303, 70312>>,
     <<70320, 70366>>, <<70384, 70393>>, <<70405, 70412>>, <<70415,
     70416>>, <<70419, 70440>>, <<70442, 70448>>, <<70450, 70451>>,
     <<70453, 70457>>, <<70461, 70461>>, <<70480, 70480>>, <<70493,
     70497>>, <<70656, 70708>>, <<70727, 70730>>, <<70736, 70745>>,
     <<70751, 70753>>, <<70784, 70831>>, <<70852, 70853>>, <<70855,
     70855>>, <<70864, 70873>>, <<71040, 71086>>, <<71128, 71131>>,
     <<71168, 71215>>, <<71236, 71236>>, <<71248, 71257>>, <<71296,
     71338>>, <<71352, 71352>>, <<71360, 71369>>, <<71424, 71450>>,
     <<71472, 71483>>, <<71488, 71494>>, <<71680, 71723>>, <<71840,
     71922>>, <<71935, 71942>>, <<71945, 71945>>, <<71948, 71955>>,
     <<71957, 71958>>, <<71960, 71983>>, <<71999, 71999>>, <<72001,
     72001>>, <<72016, 72025>>, <<72096, 72103>>, <<72106, 72144>>,
     <<72161, 72161>>, <<72163, 72163>>, <<72192, 72192>>, <<72203,
     72242>>, <<72250, 72250>>, <<72272, 72272>>, <<72284, 72329>>,
     <<72349, 72349>>, <<72368, 72440>>, <<72704, 72712>>, <<72714,
     72750>>, <<72768, 72768>>, <<72784, 72812>>, <<72818, 72847>>,
     <<72960, 72966>>, <<72968, 72969>>, <<72971, 73008>>, <<73030,
     73030>>, <<73040, 73049>>, <<73056, 73061>>, <<73063, 73064>>,
     <<73066, 73097>>, <<73112, 73112>>, <<73120, 73129>>, <<73440,
     73458>>, <<73648, 73648>>, <<73664, 73684>>, <<73728, 74649>>,
     <<74752, 74862>>, <<74880, 75075>>, <<77712, 77808>>, <<77824,
     78894>>, <<82944, 83526>>, <<92160, 92728>>, <<92736, 92766>>,
     <<92768, 92777>>, <<92784, 92862>>, <<92864, 92873>>, <<92880,
     92909>>, <<92928, 92975>>, <<92992, 92995>>, <<93008, 93017>>,
     <<93019, 93025>>, <<93027, 93047>>, <<93053, 93071>>, <<93760,
     93846>>, <<93952, 94026>>, <<94032, 94032>>, <<94099, 94111>>,
     <<94176, 94177>>, <<94179, 94179>>, <<94208, 100343>>, <<100352,
     101589>>, <<101632, 101640>>, <<110576, 110579>>, <<110581,
     110587>>, <<110589, 110590>>, <<110592, 110882>>, <<110928,
     110930>>, <<110948, 110951>>, <<110960, 111355>>, <<113664,
     113770>>, <<113776, 113788>>, <<113792, 113800>>, <<113808,
     113817>>, <<119520, 119539>>, <<119648, 119672>>, <<119808,
     119892>>, <<119894, 119964>>, <<119966, 119967>>, <<119970,
     119970>>, <<119973, 119974>>, <<119977, 119980>>, <<119982,
     119993>>, <<119995, 119995>>, <<119997, 120003>>, <<120005,
     120069>>, <<120071, 120074>>, <<120077, 120084>>, <<120086,
     120092>>, <<120094, 120121>>, <<120123, 120126>>, <<120128,
     120132>>, <<120134, 120134>>, <<120138, 120144>>, <<120146,
     120485>>, <<120488, 120512>>, <<120514, 120538>>, <<120540,
     120570>>, <<120572, 120596>>, <<120598, 120628>>, <<120630,
     120654>>, <<120656, 120686>>, <<120688, 120712>>, <<120714,
     120744>>, <<120746, 120770>>, <<120772, 120779>>, <<120782,
     120831>>, <<122624, 122654>>, <<123136, 123180>>, <<123191,
     123197>>, <<123200, 123209>>, <<123214, 123214>>, <<123536,
     123565>>, <<123584, 123627>>, <<123632, 123641>>, <<124896,
     124902>>, <<124904, 124907>>, <<124909, 124910>>, <<124912,
     124926>>, <<124928, 125124>>, <<125127, 125135>>, <<125184,
     125251>>, <<125259, 125259>>, <<125264, 125273>>, <<126065,
     126123>>, <<126125, 126127>>, <<126129, 126132>>, <<126209,
     126253>>, <<126255, 126269>>, <<126464, 126467>>, <<126469,
     126495>>, <<126497, 126498>>, <<126500, 126500>>, <<126503,
     126503>>, <<126505, 126514>>, <<126516, 126519>>, <<126521,
     126521>>, <<126523, 126523>>, <<126530, 126530>>, <<126535,
     126535>>, <<126537, 126537>>, <<126539, 126539>>, <<126541,
     126543>>, <<126545, 126546>>, <<126548, 126548>>, <<126551,
     126551>>, <<126553, 126553>>, <<126555, 126555>>, <<126557,
     126557>>, <<126559, 126559>>, <<126561, 126562>>, <<126564,
     126564>>, <<126567, 126570>>, <<126572, 126578>>, <<126580,
     126583>>, <<126585, 126588>>, <<126590, 126590>>, <<126592,
     126601>>, <<126603, 126619>>, <<126625, 126627>>, <<126629,
     126633>>, <<126635, 126651>>, <<127232, 127244>>, <<130032,
     130041>>, <<131072, 173791>>, <<173824, 177976>>, <<177984,
     178205>>, <<178208, 183969>>, <<183984, 191456>>, <<194560,
     195101>>, <<196608, 201546>>}

WordChars == CharsOf(WordRanges)

\* The cap of the heading pattern #{1,6}.
MaxHeadingLevel == 6

(***************************************************************************)
(* String primitives.                                                      *)
(***************************************************************************)

\* The end of the greedy run of characters of S that starts at i: the least
\* j >= i with j past the end of s or s[j] not in S.
RECURSIVE RunEnd(_, _, _)
RunEnd(s, i, S) ==
    IF i > Len(s) THEN i
    ELSE IF s[i] \in S THEN RunEnd(s, i + 1, S) ELSE i

\* The first position j >= i with s[j] = c, or Len(s) + 1 when there is none
\* (the end of the greedy run of a negated class [^c]).
RECURSIVE FindChar(_, _, _)
FindChar(s, i, c) ==
    IF i > Len(s) THEN i
    ELSE IF s[i] = c THEN i ELSE FindChar(s, i + 1, c)

\* The last position j <= i with s[j] not whitespace, or 0.
RECURSIVE LastNonSpace(_, _)
LastNonSpace(s, i) ==
    IF i = 0 THEN 0
    ELSE IF s[i] \in Whitespace THEN LastNonSpace(s, i - 1) ELSE i

\* str.strip(): s without its leading and trailing whitespace.
Strip(s) == SubSeq(s, RunEnd(s, 1, Whitespace), LastNonSpace(s, Len(s)))

\* str.split('\n'): the text between newlines; "" splits to [""].
RECURSIVE SplitFrom(_, _, _)
SplitFrom(s, i, cur) ==
    IF i > Len(s) THEN <<cur>>
    ELSE IF s[i] = Newline THEN <<cur>> \o SplitFrom(s, i + 1, <<>>)
    ELSE SplitFrom(s, i + 1, Append(cur, s[i]))

SplitLines(s) == SplitFrom(s, 1, <<>>)

\* sep.join(parts).
RECURSIVE Join(_, _)
Join(parts, sep) ==
    IF parts = <<>> THEN <<>>
    ELSE IF Len(parts) = 1 THEN parts[1]
    ELSE parts[1] \o sep \o Join(Tail(parts), sep)

\* s.startswith(p).
StartsWith(s, p) == Len(s) >= Len(p) /\ SubSeq(s, 1, Len(p)) = p

\* Whether p occurs in s at position i.
OccursAt(s, i, p) ==
    i + Len(p) - 1 <= Len(s) /\ SubSeq(s, i, i + Len(p) - 1) = p

\* The backquote character U+0060, which a TLA+ string literal cannot hold.
Backtick == Ord("backquote")

\* The code-fence marker: three backquotes.
Fence == <<Backtick, Backtick, Backtick>>

\* The first position j >= i where the fence occurs in s, or 0.
RECURSIVE FindFence(_, _)
FindFence(s, i) ==
    IF i + 2 > Len(s) THEN 0
    ELSE IF OccursAt(s, i, Fence) THEN i ELSE FindFence(s, i + 1)

(***************************************************************************)
(* The regular expressions, each as the deterministic computation the      *)
(* backtracking matcher performs.  The line patterns are applied to        *)
(* line.strip() of a line of content.split('\n'): such a line holds no     *)
(* newline and neither starts nor ends with whitespace.                    *)
(***************************************************************************)

\* A variant of the title pattern that takes any number of '#': '^#+\s+(.+)$'.
MatchTitleAnyLevel(s) ==
    LET h == RunEnd(s, 1, {Hash}) - 1
        w == RunEnd(s, h + 1, Whitespace)
    IN  IF /\ h >= 1
           /\ h + 1 <= Len(s)
           /\ s[h + 1] \in Whitespace
           /\ w <= Len(s)
        THEN [matched |-> TRUE, text |-> SubSeq(s, w, Len(s))]
        ELSE [matched |-> FALSE, text |-> <<>>]

\* re.match(r'^#\s+(.+)$', s): one '#', a run of whitespace, then the rest.
MatchTitle(s) ==
    LET w == RunEnd(s, 2, Whitespace)
    IN  IF /\ Len(s) >= 2
           /\ s[1] = Hash
           /\ s[2] \in Whitespace
           /\ w <= Len(s)
        THEN [matched |-> TRUE, text |-> SubSeq(s, w, Len(s))]
        ELSE [matched |-> FALSE, text |-> <<>>]

\* re.match(r'^(#{1,6})\s+(.+)$', s): the greedy #{1,6} takes up to six of
\* the leading '#'; the next character must be whitespace, so a seventh '#'
\* fails the match (giving back a '#' leaves a '#' where \s is needed).
MatchHeading(s) ==
    LET h == RunEnd(s, 1, {Hash}) - 1
        w == RunEnd(s, h + 1, Whitespace)
    IN  IF /\ h >= 1
           /\ h <= MaxHeadingLevel
           /\ h + 1 <= Len(s)
           /\ s[h + 1] \in Whitespace
           /\ w <= Len(s)
        THEN [matched |-> TRUE, hashes |-> SubSeq(s, 1, h),
              text |-> SubSeq(s, w, Len(s))]
        ELSE [matched |-> FALSE, hashes |-> <<>>, text |-> <<>>]

\* re.match(r'^[-*+]\s+', s).
MatchBullet(s) ==
    /\ Len(s) >= 2
    /\ s[1] \in BulletMarks
    /\ s[2] \in Whitespace

\* re.match(r'^\d+\.\s+', s).
MatchNumbered(s) ==
    LET d == RunEnd(s, 1, Digits)
    IN  /\ d > 1
        /\ d + 1 <= Len(s)
        /\ s[d] = Dot
        /\ s[d + 1] \in Whitespace

\* re.match(r'^\[([^\]]+)\]:\s+(.+)$', s).
MatchRef(s) ==
    LET b == FindChar(s, 2, CloseBracket)
        w == RunEnd(s, b + 2, Whitespace)
    IN  IF /\ Len(s) >= 1
           /\ s[1] = OpenBracket
           /\ b > 2
           /\ b + 2 <= Len(s)
           /\ s[b + 1] = Colon
           /\ s[b + 2] \in Whitespace
           /\ w <= Len(s)
        THEN [matched |-> TRUE, text |-> SubSeq(s, 2, b - 1),
              url |-> SubSeq(s, w, Len(s))]
        ELSE [matched |-> FALSE, text |-> <<>>, url |-> <<>>]

\* A variant of the code-block pattern without the newline after the opening
\* fence and its tag: '```(\w+)?(.*?)```'.
RECURSIVE CodeMatchesNoNewline(_, _)
CodeMatchesNoNewline(s, i) ==
    IF i + 2 > Len(s) THEN <<>>
    ELSE LET t == RunEnd(s, i + 3, WordChars)
             c == FindFence(s, t)
         IN  IF /\ OccursAt(s, i, Fence)
                /\ c # 0
             THEN <<[start |-> i,
                     group1 |-> IF t > i + 3 THEN SubSeq(s, i + 3, t - 1)
                                ELSE None,
                     group2 |-> SubSeq(s, t, c - 1)]>>
                  \o CodeMatchesNoNewline(s, c + 3)
             ELSE CodeMatchesNoNewline(s, i + 1)

\* re.finditer(r'```(\w+)?\n(.*?)```', s, re.DOTALL) from position i on: the
\* matches, left to right and non-overlapping.  At a fence the greedy (\w+)?
\* takes the whole run of word characters, which a newline must follow; the
\* lazy (.*?) then runs to the first fence after that newline.  A position
\* where this fails is passed over and the scan resumes one character on.
RECURSIVE CodeMatches(_, _)
CodeMatches(s, i) ==
    IF i + 2 > Len(s) THEN <<>>
    ELSE LET t == RunEnd(s, i + 3, WordChars)
             c == FindFence(s, t + 1)
         IN  IF /\ OccursAt(s, i, Fence)
                /\ t <= Len(s)
                /\ s[t] = Newline
                /\ c # 0
             THEN <<[start |-> i,
                     group1 |-> IF t > i + 3 THEN SubSeq(s, i + 3, t - 1)
                                ELSE None,
                     group2 |-> SubSeq(s, t + 1, c - 1)]>>
                  \o CodeMatches(s, c + 3)
             ELSE CodeMatches(s, i + 1)

\* re.finditer(r'\[([^\]]+)\]\(([^\)]+)\)', s) from position i on.
RECURSIVE LinkMatches(_, _)
LinkMatches(s, i) ==
    IF i > Len(s) THEN <<>>
    ELSE LET b == FindChar(s, i + 1, CloseBracket)
             p == FindChar(s, b + 2, CloseParen)
         IN  IF /\ s[i] = OpenBracket
                /\ b > i + 1
                /\ b + 1 <= Len(s)
                /\ s[b + 1] = OpenParen
                /\ p > b + 2
                /\ p <= Len(s)
             THEN <<[start |-> i, group1 |-> SubSeq(s, i + 1, b - 1),
                     group2 |-> SubSeq(s, b + 2, p - 1)]>>
                  \o LinkMatches(s, p + 1)
             ELSE LinkMatches(s, i + 1)

\* re.finditer(r'!\[([^\]]*)\]\(([^\)]+)\)', s) from position i on.
RECURSIVE ImageMatches(_, _)
ImageMatches(s, i) ==
    IF i > Len(s) THEN <<>>
    ELSE LET b == FindChar(s, i + 2, CloseBracket)
             p == FindChar(s, b + 2, CloseParen)
         IN  IF /\ s[i] = Bang
                /\ i + 1 <= Len(s)
                /\ s[i + 1] = OpenBracket
                /\ b + 1 <= Len(s)
                /\ s[b + 1] = OpenParen
                /\ p > b + 2
                /\ p <= Len(s)
             THEN <<[start |-> i, group1 |-> SubSeq(s, i + 2, b - 1),
                     group2 |-> SubSeq(s, b + 2, p - 1)]>>
                  \o ImageMatches(s, p + 1)
             ELSE ImageMatches(s, i + 1)

(***************************************************************************)
(* The extraction passes of parse(), each a function of self.content.      *)
(***************************************************************************)

\* _extract_title, the loop over lines from line i on.
RECURSIVE TitleFrom(_, _)
TitleFrom(lines, i) ==
    IF i > Len(lines) THEN None
    ELSE LET match == MatchTitle(Strip(lines[i]))
         IN  IF match.matched THEN Strip(match.text)
             ELSE TitleFrom(lines, i + 1)

_extract_title(c) ==
    IF Falsy(c) THEN None ELSE TitleFrom(SplitLines(c), 1)

\* A variant of the heading loop that records the 0-based index of the line.
RECURSIVE HeadingsFromZeroBased(_, _)
HeadingsFromZeroBased(lines, i) ==
    IF i > Len(lines) THEN <<>>
    ELSE LET match == MatchHeading(Strip(lines[i]))
         IN  IF match.matched
             THEN <<[level |-> Len(match.hashes),
                     text |-> Strip(match.text),
                     line_number |-> i - 1]>>
                  \o HeadingsFromZeroBased(lines, i + 1)
             ELSE HeadingsFromZeroBased(lines, i + 1)

\* _extract_headings, the loop over enumerate(lines) from index i on
\* (i is 1-based here, so line_number is i + 1 of the 0-based index).
RECURSIVE HeadingsFrom(_, _)
HeadingsFrom(lines, i) ==
    IF i > Len(lines) THEN <<>>
    ELSE LET match == MatchHeading(Strip(lines[i]))
         IN  IF match.matched
             THEN <<[level |-> Len(match.hashes),
                     text |-> Strip(match.text),
                     line_number |-> i]>> \o HeadingsFrom(lines, i + 1)
             ELSE HeadingsFrom(lines, i + 1)

_extract_headings(c) ==
    IF Falsy(c) THEN <<>> ELSE HeadingsFrom(SplitLines(c), 1)

\* A variant of the paragraph step that flushes the run on a skipped line.
ParagraphStepFlushOnSkip(st, line) ==
    LET stripped == Strip(line)
        flushed ==
            IF st.current_paragraph # <<>>
            THEN [paragraphs |-> Append(st.paragraphs,
                                        Join(st.current_paragraph, <<Space>>)),
                  current_paragraph |-> <<>>]
            ELSE st
    IN  IF stripped = <<>> THEN flushed
        ELSE IF StartsWith(stripped, <<Hash>>) THEN flushed
        ELSE IF StartsWith(stripped, Fence) THEN flushed
        ELSE IF MatchBullet(stripped) THEN flushed
        ELSE IF MatchNumbered(stripped) THEN flushed
        ELSE [paragraphs |-> st.paragraphs,
              current_paragraph |-> Append(st.current_paragraph, stripped)]

\* One step of the loop of _extract_paragraphs on a line: st holds the
\* paragraphs emitted so far and current_paragraph.
ParagraphStep(st, line) ==
    LET stripped == Strip(line)
    IN  IF stripped = <<>>
        THEN IF st.current_paragraph # <<>>
             THEN [paragraphs |-> Append(st.paragraphs,
                                         Join(st.current_paragraph, <<Space>>)),
                   current_paragraph |-> <<>>]
             ELSE st
        ELSE IF StartsWith(stripped, <<Hash>>) THEN st
        ELSE IF StartsWith(stripped, Fence) THEN st
        ELSE IF MatchBullet(stripped) THEN st
        ELSE IF MatchNumbered(stripped) THEN st
        ELSE [paragraphs |-> st.paragraphs,
              current_paragraph |-> Append(st.current_paragraph, stripped)]

RECURSIVE ParagraphLoop(_, _, _)
ParagraphLoop(lines, i, st) ==
    IF i > Len(lines) THEN st
    ELSE ParagraphLoop(lines, i + 1, ParagraphStep(st, lines[i]))

NonEmptyText(p) == p # <<>>

_extract_paragraphs(c) ==
    IF Falsy(c) THEN <<>>
    ELSE LET st == ParagraphLoop(SplitLines(c), 1,
                       [paragraphs |-> <<>>, current_paragraph |-> <<>>])
             paragraphs ==
                 IF st.current_paragraph # <<>>
                 THEN Append(st.paragraphs,
                             Join(st.current_paragraph, <<Space>>))
                 ELSE st.paragraphs
         IN  SelectSeq(paragraphs, NonEmptyText)

_extract_code_blocks(c) ==
    IF Falsy(c) THEN <<>>
    ELSE LET matches == CodeMatches(c, 1)
         IN  [k \in 1..Len(matches) |->
                 [language |-> matches[k].group1,
                  code |-> Strip(matches[k].group2)]]

\* The second loop of _extract_links: the reference definitions, line by line.
RECURSIVE RefLinksFrom(_, _)
RefLinksFrom(lines, i) ==
    IF i > Len(lines) THEN <<>>
    ELSE LET ref_match == MatchRef(Strip(lines[i]))
         IN  IF ref_match.matched
             THEN <<[text |-> ref_match.text, url |-> Strip(ref_match.url)]>>
                  \o RefLinksFrom(lines, i + 1)
             ELSE RefLinksFrom(lines, i + 1)

_extract_links(c) ==
    IF Falsy(c) THEN <<>>
    ELSE LET matches == LinkMatches(c, 1)
         IN  [k \in 1..Len(matches) |->
                 [text |-> matches[k].group1, url |-> matches[k].group2]]
             \o RefLinksFrom(SplitLines(c), 1)

_extract_images(c) ==
    IF Falsy(c) THEN <<>>
    ELSE LET matches == ImageMatches(c, 1)
         IN  [k \in 1..Len(matches) |->
                 [alt_text |-> matches[k].group1, url |-> matches[k].group2]]

\* The dict parse() builds from content c.
ParsedOf(c) ==
    [title |-> _extract_title(c),
     headings |-> _extract_headings(c),
     paragraphs |-> _extract_paragraphs(c),
     code_blocks |-> _extract_code_blocks(c),
     links |-> _extract_links(c),
     images |-> _extract_images(c),
     raw |-> c]

\* One step of the loop of get_sections on a line: st holds sections,
\* current_section (NoneDict before the first heading) and current_content.
SectionStep(st, line) ==
    LET match == MatchHeading(Strip(line))
    IN  IF match.matched
        THEN [sections |->
                 IF TruthyDict(st.current_section)
                 THEN Append(st.sections,
                             [st.current_section EXCEPT !.content =
                                 Strip(Join(st.current_content, <<Newline>>))])
                 ELSE st.sections,
              current_section |-> [level |-> Len(match.hashes),
                                   heading |-> Strip(match.text),
                                   content |-> <<>>],
              current_content |-> <<>>]
        ELSE IF TruthyDict(st.current_section)
             THEN [st EXCEPT !.current_content = Append(@, line)]
             ELSE st

RECURSIVE SectionLoop(_, _, _)
SectionLoop(lines, i, st) ==
    IF i > Len(lines) THEN st
    ELSE SectionLoop(lines, i + 1, SectionStep(st, lines[i]))

\* A variant of get_sections() that forgets to add the last open section.
SectionsOfWithoutLast(c) ==
    IF Falsy(c) THEN <<>>
    ELSE SectionLoop(SplitLines(c), 1,
             [sections |-> <<>>, current_section |-> NoneDict,
              current_content |-> <<>>]).sections

\* The list get_sections() returns for content c.
SectionsOf(c) ==
    IF Falsy(c) THEN <<>>
    ELSE LET st == SectionLoop(SplitLines(c), 1,
                       [sections |-> <<>>, current_section |-> NoneDict,
                        current_content |-> <<>>])
         IN  IF TruthyDict(st.current_section)
             THEN Append(st.sections,
                         [st.current_section EXCEPT !.content =
                             Strip(Join(st.current_content, <<Newline>>))])
             ELSE st.sections

(***************************************************************************)
(* The inputs.  A text is the lines of a small pool joined by newlines;    *)
(* each family of texts exercises one extraction pass.                     *)
(***************************************************************************)

\* The largest number of lines of a text of each family.
MaxHeadingLines == 3

MaxParagraphLines == 3

MaxSectionLines == 4

MaxCodeLines == 4

MaxLinkLines == 3

\* The texts of 1..n lines drawn from pool.
TextsOf(pool, n) ==
    UNION {{Join(ls, <<Newline>>) : ls \in [1..k -> pool]} : k \in 1..n}

\* "# A", " # B ", "##" with an ideographic space (U+3000) and "C", "#D",
\* "####### E", "x", "" and " y".
HeadingLinePool ==
    {Txt(<<"#", " ", "A">>),
     Txt(<<" ", "#", " ", "B", " ">>),
     Txt(<<"#", "#">>) \o <<12288>> \o Txt(<<"C">>),
     Txt(<<"#", "D">>),
     Txt(<<"#", "#", "#", "#", "#", "#", "#", " ", "E">>),
     Txt(<<"x">>),
     <<>>,
     Txt(<<" ", "y">>)}

\* "# A", " ## C" closed by a no-break space (U+00A0), "x", "" and " y".
SectionLinePool ==
    {Txt(<<"#", " ", "A">>),
     Txt(<<" ", "#", "#", " ", "C">>) \o <<160>>,
     Txt(<<"x">>),
     <<>>,
     Txt(<<" ", "y">>)}

\* "a", "b " after a no-break space (U+00A0), "", a space and a line
\* tabulation (U+000B), "# H", a fence, "- i", "-", and "1", the
\* Arabic-Indic digit one (U+0661) and ". n".
ParagraphLinePool ==
    {Txt(<<"a">>),
     <<160>> \o Txt(<<"b", " ">>),
     <<>>,
     <<Space, 11>>,
     Txt(<<"#", " ", "H">>),
     Fence,
     Txt(<<"-", " ", "i">>),
     Txt(<<"1">>) \o <<1633>> \o Txt(<<".", " ", "n">>),
     Txt(<<"-">>)}

\* A fence, a fence with the tag "p" and e-acute (U+00E9), a fence with the
\* tag "py" and the closing fence on one line, a fence with a space before its tag, " x " and "".
CodeLinePool ==
    {Fence,
     Fence \o Txt(<<"p">>) \o <<233>>,
     Fence \o Txt(<<"p", "y">>) \o Fence,
     Fence \o Txt(<<" ", "q">>),
     Txt(<<" ", "x", " ">>),
     <<>>}

\* "[s](u)", "![t](v)", "x [s](u) ![](w)", "[r]: z", "[s]" and "".
LinkLinePool ==
    {Txt(<<"[", "s", "]", "(", "u", ")">>),
     Txt(<<"!", "[", "t", "]", "(", "v", ")">>),
     Txt(<<"x", " ", "[", "s", "]", "(", "u", ")", " ",
       "!", "[", "]", "(", "w", ")">>),
     Txt(<<"[", "r", "]", ":", " ", "z">>),
     Txt(<<"[", "s", "]">>),
     <<>>}

HeadingTexts == TextsOf(HeadingLinePool, MaxHeadingLines)

ParagraphTexts == TextsOf(ParagraphLinePool, MaxParagraphLines)

SectionTexts == TextsOf(SectionLinePool, MaxSectionLines)

CodeTexts == TextsOf(CodeLinePool, MaxCodeLines)

LinkTexts == TextsOf(LinkLinePool, MaxLinkLines)

\* The texts read_string is given in the specification of the whole reader:
\* "", "# A", "x", "# A\nx" and "## C\n\n y".
StringTexts ==
    {<<>>,
     Txt(<<"#", " ", "A">>),
     Txt(<<"x">>),
     Txt(<<"#", " ", "A", "\n", "x">>),
     Txt(<<"#", "#", " ", "C", "\n", "\n", " ", "y">>)}

\* The file system read() sees: a path that does not exist, a directory, two
\* text files (one of them empty) and a file whose bytes are not UTF-8.
Paths == {"missing.md", "docs", "a.md", "empty.md", "latin1.md"}

FileKind(path) ==
    CASE path = "missing.md" -> "missing"
      [] path = "docs" -> "directory"
      [] path = "latin1.md" -> "undecodable"
      [] OTHER -> "text"

FileText(path) ==
    IF path = "a.md" THEN Txt(<<"#", " ", "A", "\n", "\n", "x">>) ELSE <<>>

\* The level arguments of get_headings_by_level: 0 .. MaxHeadingLevel + 1.
LevelArgs == 0..(MaxHeadingLevel + 1)

(***************************************************************************)
(* The methods.  ret is the outcome of the last call: the method, its      *)
(* argument, the exception it raised ("none" when it returned) and the     *)
(* value it returned (NoValue when it raised).                             *)
(***************************************************************************)

NoValue == <<>>

Outcome(op, arg, raised, val) ==
    [op |-> op, arg |-> arg, raised |-> raised, val |-> val]

\* __init__(file_path=None): the three fields are None.
InitNew ==
    /\ file_path = NonePath
    /\ content = None
    /\ parsed_content = NoneDict
    /\ ret = Outcome("__init__", NonePath, "none", NoValue)

\* A variant of read() that stores the path before it checks it.
ReadStoresPathFirst ==
    \E path \in Paths :
        /\ file_path' = path
        /\ IF FileKind(path) = "missing"
           THEN /\ ret' = Outcome("read", path, "FileNotFoundError", NoValue)
                /\ UNCHANGED <<content, parsed_content>>
           ELSE IF FileKind(path) = "directory"
           THEN /\ ret' = Outcome("read", path, "ValueError", NoValue)
                /\ UNCHANGED <<content, parsed_content>>
           ELSE IF FileKind(path) = "undecodable"
           THEN /\ ret' = Outcome("read", path, "UnicodeDecodeError", NoValue)
                /\ UNCHANGED <<content, parsed_content>>
           ELSE /\ content' = FileText(path)
                /\ parsed_content' = NoneDict
                /\ ret' = Outcome("read", path, "none", FileText(path))

\* read(file_path).
Read ==
    \E path \in Paths :
        IF FileKind(path) = "missing"
        THEN /\ ret' = Outcome("read", path, "FileNotFoundError", NoValue)
             /\ UNCHANGED <<file_path, content, parsed_content>>
        ELSE IF FileKind(path) = "directory"
        THEN /\ ret' = Outcome("read", path, "ValueError", NoValue)
             /\ UNCHANGED <<file_path, content, parsed_content>>
        ELSE IF FileKind(path) = "undecodable"
        THEN /\ file_path' = path
             /\ ret' = Outcome("read", path, "UnicodeDecodeError", NoValue)
             /\ UNCHANGED <<content, parsed_content>>
        ELSE /\ file_path' = path
             /\ content' = FileText(path)
             /\ parsed_content' = NoneDict
             /\ ret' = Outcome("read", path, "none", FileText(path))

\* A variant of read_string() that keeps the cached parse result.
ReadStringKeepsCache ==
    \E text \in StringTexts :
        /\ content' = text
        /\ file_path' = NonePath
        /\ ret' = Outcome("read_string", text, "none", text)
        /\ UNCHANGED parsed_content

\* read_string(content).
ReadString ==
    \E text \in StringTexts :
        /\ content' = text
        /\ file_path' = NonePath
        /\ parsed_content' = NoneDict
        /\ ret' = Outcome("read_string", text, "none", text)

\* get_content().
GetContent ==
    /\ ret' = Outcome("get_content", NoValue, "none", content)
    /\ UNCHANGED <<file_path, content, parsed_content>>

\* The body of parse() on fields c (content) and pc (parsed_content): the
\* exception raised, the value returned and the new parsed_content.
parse(c, pc) ==
    IF Falsy(c)
    THEN [raised |-> "ValueError", val |-> NoValue, parsed_content |-> pc]
    ELSE IF TruthyDict(pc)
    THEN [raised |-> "none", val |-> pc, parsed_content |-> pc]
    ELSE [raised |-> "none", val |-> ParsedOf(c),
          parsed_content |-> ParsedOf(c)]

\* parse().
Parse ==
    LET r == parse(content, parsed_content)
    IN  /\ parsed_content' = r.parsed_content
        /\ ret' = Outcome("parse", NoValue, r.raised, r.val)
        /\ UNCHANGED <<file_path, content>>

\* The list comprehension of get_headings_by_level: the texts of the
\* headings of the given level.
RECURSIVE TextsAtLevel(_, _)
TextsAtLevel(headings, level) ==
    IF headings = <<>> THEN <<>>
    ELSE IF Head(headings).level = level
    THEN <<Head(headings).text>> \o TextsAtLevel(Tail(headings), level)
    ELSE TextsAtLevel(Tail(headings), level)

\* get_headings_by_level(level) after its call of parse(), whose outcome
\* is r: an exception of parse() propagates, else the headings are filtered.
get_headings_by_level(r, level) ==
    IF r.raised # "none" THEN r
    ELSE [r EXCEPT !.val = TextsAtLevel(r.val.headings, level)]

\* get_headings_by_level(level).
GetHeadingsByLevel ==
    LET parsed == parse(content, parsed_content)
    IN  \E level \in LevelArgs :
            LET r == get_headings_by_level(parsed, level)
            IN  /\ parsed_content' = r.parsed_content
                /\ ret' = Outcome("get_headings_by_level", level,
                                  r.raised, r.val)
                /\ UNCHANGED <<file_path, content>>

\* A variant of get_sections() that raises without content, as parse() does.
get_sections_raising(c) ==
    IF Falsy(c) THEN [raised |-> "ValueError", val |-> NoValue]
    ELSE [raised |-> "none", val |-> SectionsOf(c)]

\* The body of get_sections() on field c: it returns [] without content.
get_sections(c) ==
    [raised |-> "none", val |-> SectionsOf(c)]

\* get_sections().
GetSections ==
    LET r == get_sections(content)
    IN  /\ ret' = Outcome("get_sections", NoValue, r.raised, r.val)
        /\ UNCHANGED <<file_path, content, parsed_content>>

(***************************************************************************)
(* The specifications.  Spec is the whole reader: any sequence of calls on *)
(* a new object.  The other five start from the object read_string leaves  *)
(* for a text of one family and apply parse() and get_sections() to it.    *)
(***************************************************************************)

Init == InitNew

Next == Read \/ ReadString \/ GetContent \/ Parse \/ GetHeadingsByLevel
            \/ GetSections

Spec == Init /\ [][Next]_vars

\* The state read_string(text) leaves.
Loaded(text) ==
    /\ content = text
    /\ file_path = NonePath
    /\ parsed_content = NoneDict
    /\ ret = Outcome("read_string", text, "none", text)

NextDerive == GetContent \/ Parse \/ GetSections

InitHeadings == \E text \in HeadingTexts : Loaded(text)

SpecHeadings == InitHeadings /\ [][NextDerive]_vars

InitSections == \E text \in SectionTexts : Loaded(text)

SpecSections == InitSections /\ [][NextDerive]_vars

InitParagraphs == \E text \in ParagraphTexts : Loaded(text)

SpecParagraphs == InitParagraphs /\ [][NextDerive]_vars

InitCode == \E text \in CodeTexts : Loaded(text)

SpecCode == InitCode /\ [][NextDerive]_vars

InitLinks == \E text \in LinkTexts : Loaded(text)

SpecLinks == InitLinks /\ [][NextDerive]_vars

(***************************************************************************)
(* The reader as a whole (Spec).                                           *)
(***************************************************************************)

ParseReturned == ret.op = "parse" /\ ret.raised = "none"

\* A returned parse() is the extraction of the current content, and a cached
\* result is the extraction of the current content.
C1_CacheIsCurrent ==
    /\ ParseReturned =>
          /\ ret.val = ParsedOf(content)
          /\ parsed_content = ret.val
    /\ TruthyDict(parsed_content) => parsed_content = ParsedOf(content)

\* A parse() right after a returned parse() returns the same structure, and
\* a call that is no load leaves a cached result in place.
C1_NoLoadStep ==
    /\ (ParseReturned /\ ret'.op = "parse") =>
          (ret'.raised = "none" /\ ret'.val = ret.val)
    /\ (TruthyDict(parsed_content) /\ ret'.op \notin {"read", "read_string"})
          => parsed_content' = parsed_content

\* C1: after any sequence of loads and parses, parse() returns the extraction
\* of the most recently loaded text: a cached result is only returned while
\* the content it was computed from is current (every successful load clears
\* the cache), and two parse() calls with no load between return identical
\* structures.
C1_ParseReturnsCurrent == [](C1_CacheIsCurrent) /\ [][C1_NoLoadStep]_vars

\* C1 witness: parse() has returned the cached result for the file a.md,
\* loaded by read().
C1_Witness ==
    /\ ParseReturned
    /\ file_path = "a.md"
    /\ ret.val = parsed_content
    /\ ret.val.title = Txt(<<"A">>)

\* C2: parse() raises NoContentError (ValueError) exactly when no content has
\* been loaded; after a successful load of any text, the empty text included,
\* it returns a document whose raw is that text.  (content is None exactly
\* until the first successful load.)
C2_ParseRaisesIffUnloaded ==
    ret.op = "parse" =>
        IF content = None THEN ret.raised = "ValueError"
        ELSE ret.raised = "none" /\ ret.val.raw = content

\* C3 as stated: before any content is loaded, get_headings_by_level and
\* get_sections both raise NoContentError and return no structure.
C3_AccessorsRaise ==
    (content = None /\ ret.op \in {"get_headings_by_level", "get_sections"})
        => (ret.raised = "ValueError" /\ ret.val = NoValue)

\* C3 amended: before any content is loaded, get_headings_by_level raises
\* NoContentError for every level, returns nothing and caches nothing, and
\* get_sections raises nothing and returns the empty list.
C3_AccessorsWithoutContent ==
    content = None =>
        /\ ret.op = "get_headings_by_level" =>
              /\ ret.raised = "ValueError"
              /\ ret.val = NoValue
              /\ parsed_content = NoneDict
        /\ ret.op = "get_sections" =>
              /\ ret.raised = "none"
              /\ ret.val = <<>>

\* C3 witness: get_sections() was called on a reader without content.
C3_Witness == content = None /\ ret.op = "get_sections"

\* C10: a read() that fails with FileNotFoundError (no such path) or with
\* ValueError (not a regular file) leaves content, file_path and
\* parsed_content as they were.
C10_FailedReadChangesNothing ==
    [][(ret'.op = "read" /\ ret'.raised \in {"FileNotFoundError", "ValueError"})
          => UNCHANGED <<content, file_path, parsed_content>>]_vars

\* C10 witness: a read() of a missing path has failed on a reader that holds
\* the text and the cached parse result of an earlier read_string().
C10_Witness ==
    /\ ret.op = "read"
    /\ ret.raised = "FileNotFoundError"
    /\ file_path = NonePath
    /\ content = Txt(<<"#", " ", "A", "\n", "x">>)
    /\ TruthyDict(parsed_content)

(***************************************************************************)
(* Title and headings (SpecHeadings) and sections (SpecSections).  The     *)
(* claims are stated on the lines of the text, not by the matchers above.  *)
(***************************************************************************)

\* The lines of the current content, as they are and trimmed.
RawLines == SplitLines(content)

TrimmedLines == [i \in 1..Len(RawLines) |-> Strip(RawLines[i])]

\* The number of leading '#' characters of s.
LeadingHashes(s) ==
    Cardinality({i \in 1..Len(s) : \A j \in 1..i : s[j] = Hash})

\* s holds text (a character that is not whitespace) after position k.
HasTextAfter(s, k) == \E j \in (k + 1)..Len(s) : s[j] \notin Whitespace

\* s starts with exactly one '#' followed by whitespace and text.
IsTitleForm(s) ==
    /\ LeadingHashes(s) = 1
    /\ Len(s) >= 2
    /\ s[2] \in Whitespace
    /\ HasTextAfter(s, 2)

\* s starts with one to six '#' followed by whitespace and text.
IsHeadingForm(s) ==
    LET k == LeadingHashes(s)
    IN  /\ k \in 1..MaxHeadingLevel
        /\ k < Len(s)
        /\ s[k + 1] \in Whitespace
        /\ HasTextAfter(s, k + 1)

\* The least element of a non-empty set of numbers.
Least(S) == CHOOSE x \in S : \A y \in S : x <= y

\* The elements of a finite set of numbers in ascending order.
RECURSIVE Ascending(_)
Ascending(S) ==
    IF S = {} THEN <<>> ELSE <<Least(S)>> \o Ascending(S \ {Least(S)})

\* The trimmed text after the '#' of the first line of lines that has the
\* title form, or None.
FirstTitle(lines) ==
    LET T == {i \in 1..Len(lines) : IsTitleForm(lines[i])}
    IN  IF T = {} THEN None
        ELSE Strip(SubSeq(lines[Least(T)], 2, Len(lines[Least(T)])))

\* C5 as stated: title is the trimmed text of the first line that starts
\* with exactly one '#' followed by whitespace and text, and is absent when
\* no line of the text starts so.
C5_TitleOfFirstLine ==
    ParseReturned => ret.val.title = FirstTitle(RawLines)

\* C5 amended: title is the trimmed text of the first line that, once
\* trimmed of surrounding whitespace, starts with exactly one '#' followed by
\* whitespace and text, and is absent when no trimmed line starts so.
C5_TitleOfFirstTrimmedLine ==
    ParseReturned => ret.val.title = FirstTitle(TrimmedLines)

\* C5 witness: parse() has returned the title "B" of the text whose first
\* line is x and whose second line is the indented heading " # B ".
C5_Witness ==
    /\ ParseReturned
    /\ Len(RawLines) >= 2
    /\ RawLines[1] = Txt(<<"x">>)
    /\ RawLines[2] = Txt(<<" ", "#", " ", "B", " ">>)
    /\ ret.val.title = Txt(<<"B">>)

\* The line numbers of the heading lines: the lines whose trimmed text has
\* the heading form.
HeadingLineNumbers ==
    {i \in 1..Len(RawLines) : IsHeadingForm(TrimmedLines[i])}

\* headings holds one entry per heading line and nothing else, in order of
\* appearance, each with its 1-based line number; the level of an entry is
\* the number of leading '#' of lines[line_number] and lies in 1..6; a line
\* of lines with more than six leading '#' has no entry.
HeadingsMatch(hs, lines) ==
    /\ Len(hs) = Cardinality(HeadingLineNumbers)
    /\ \A k \in 1..Len(hs) :
          /\ hs[k].line_number \in HeadingLineNumbers
          /\ hs[k].level = LeadingHashes(lines[hs[k].line_number])
          /\ hs[k].level \in 1..MaxHeadingLevel
    /\ \A k \in 1..(Len(hs) - 1) : hs[k].line_number < hs[k + 1].line_number
    /\ \A i \in 1..Len(lines) :
          LeadingHashes(lines[i]) > MaxHeadingLevel
              => \A k \in 1..Len(hs) : hs[k].line_number # i

\* C6 as stated: the level of an entry is the number of leading '#'
\* characters of its line of the raw text.
C6_HeadingsOfRawLines ==
    ParseReturned => HeadingsMatch(ret.val.headings, RawLines)

\* C6 amended: the level of an entry is the number of leading '#' characters
\* of its line once trimmed of surrounding whitespace.
C6_HeadingsOfTrimmedLines ==
    ParseReturned => HeadingsMatch(ret.val.headings, TrimmedLines)

\* C6 witness: parse() has returned two headings for a text of three lines
\* of which one has seven leading '#'; the second heading is of level 2, its
\* '#' characters and its text separated by an ideographic space.
C6_Witness ==
    /\ ParseReturned
    /\ Len(RawLines) = 3
    /\ \E i \in 1..3 : LeadingHashes(RawLines[i]) > MaxHeadingLevel
    /\ Len(ret.val.headings) = 2
    /\ ret.val.headings[2].level = 2

\* The section of the k-th heading line, H being the heading line numbers in
\* ascending order: its level and text are those of the heading, its content
\* the lines strictly between it and the next heading line (or the end of
\* the text), joined by newlines and trimmed.
SectionAt(H, k) ==
    LET line == TrimmedLines[H[k]]
        next == IF k < Len(H) THEN H[k + 1] ELSE Len(RawLines) + 1
    IN  [level |-> LeadingHashes(line),
         heading |-> Strip(SubSeq(line, LeadingHashes(line) + 1, Len(line))),
         content |-> Strip(Join(SubSeq(RawLines, H[k] + 1, next - 1),
                                <<Newline>>))]

\* C7: get_sections() returns one section per heading line, in document
\* order, with that heading's level and text and, as content, the lines
\* strictly between the heading and the next heading (or the end of input)
\* joined by newline and trimmed; lines before the first heading are in no
\* section.
C7_SectionsFollowHeadings ==
    (ret.op = "get_sections" /\ content # None) =>
        LET H == Ascending(HeadingLineNumbers)
        IN  /\ ret.raised = "none"
            /\ Len(ret.val) = Len(H)
            /\ \A k \in 1..Len(H) : ret.val[k] = SectionAt(H, k)

\* C7 witness: get_sections() has returned, for the four lines "# A", "x",
\* "" and " y", one section whose content keeps the blank line inside it.
C7_Witness ==
    /\ ret.op = "get_sections"
    /\ Len(ret.val) = 1
    /\ ret.val[1].heading = Txt(<<"A">>)
    /\ ret.val[1].content = Txt(<<"x", "\n", "\n", " ", "y">>)

(***************************************************************************)
(* Paragraphs (SpecParagraphs).                                            *)
(***************************************************************************)

\* A blank line: nothing but whitespace.
IsBlank(line) == \A j \in 1..Len(line) : line[j] \in Whitespace

\* A skipped line, s being the trimmed line: it starts with '#', with a code
\* fence, with a bullet marker ('-', '*' or '+', then whitespace) or with a
\* numbered marker (digits, '.', whitespace).
IsSkipped(s) ==
    \/ (Len(s) >= 1 /\ s[1] = Hash)
    \/ (Len(s) >= 3 /\ \A j \in 1..3 : s[j] = Backtick)
    \/ (Len(s) >= 2 /\ s[1] \in BulletMarks /\ s[2] \in Whitespace)
    \/ \E d \in 1..(Len(s) - 2) :
          /\ \A j \in 1..d : s[j] \in Digits
          /\ s[d + 1] = Dot
          /\ s[d + 2] \in Whitespace

\* The numbers of the text lines: neither blank nor skipped.
TextLineNumbers ==
    {i \in 1..Len(RawLines) :
        ~IsBlank(RawLines[i]) /\ ~IsSkipped(TrimmedLines[i])}

\* No blank line lies between lines i and j.
SameRun(i, j) == \A b \in i..j : ~IsBlank(RawLines[b])

\* The text lines that open a run: no earlier text line is in the same run.
RunStarts ==
    {i \in TextLineNumbers :
        \A j \in TextLineNumbers : j < i => ~SameRun(j, i)}

\* The paragraph of the run that text line a opens: the trimmed text lines
\* of the run joined by single spaces.
ParagraphOfRun(a) ==
    LET members == Ascending({j \in TextLineNumbers : j >= a /\ SameRun(a, j)})
    IN  Join([k \in 1..Len(members) |-> TrimmedLines[members[k]]], <<Space>>)

\* C8: a run of text lines is flushed only by a blank line or the end of
\* input; a skipped line between two text lines neither ends the run nor
\* adds to it, so paragraphs holds, in order, one paragraph per run of text
\* lines that no blank line separates, its lines joined by single spaces;
\* and no paragraph is the empty string.
C8_ParagraphsAreRuns ==
    ParseReturned =>
        LET starts == Ascending(RunStarts)
        IN  /\ ret.val.paragraphs =
                  [k \in 1..Len(starts) |-> ParagraphOfRun(starts[k])]
            /\ \A k \in 1..Len(ret.val.paragraphs) :
                  ret.val.paragraphs[k] # <<>>

\* C8 witness: parse() has returned the single paragraph "a b" for the three
\* lines "a", "# H" and "b " after a no-break space.
C8_Witness ==
    /\ ParseReturned
    /\ RawLines = <<(Txt(<<"a">>)), Txt(<<"#", " ", "H">>),
                    <<160>> \o Txt(<<"b", " ">>)>>
    /\ ret.val.paragraphs = <<(Txt(<<"a", " ", "b">>))>>

(***************************************************************************)
(* Code blocks (SpecCode).                                                 *)
(***************************************************************************)

FenceAt(i) == OccursAt(content, i, Fence)

\* The position after the language tag of the fence at i: the first position
\* from i + 3 on that holds no word character.
TagEnd(i) ==
    Least({t \in (i + 3)..(Len(content) + 1) :
              t = Len(content) + 1 \/ content[t] \notin WordChars})

\* Where the content of the region of the fence at i starts: after the
\* newline that follows the tag, or right after the tag.
ContentStart(i, newline) == IF newline THEN TagEnd(i) + 1 ELSE TagEnd(i)

\* The fences that can close the region of the fence at i.
Closings(i, newline) ==
    {c \in ContentStart(i, newline)..Len(content) : FenceAt(c)}

\* The fence at i opens a region: a tag may follow it, a newline follows the
\* tag (when newline is required), and a fence closes it.
Opens(i, newline) ==
    /\ FenceAt(i)
    /\ newline => (TagEnd(i) <= Len(content) /\ content[TagEnd(i)] = Newline)
    /\ Closings(i, newline) # {}

\* The regions from position p on, left to right: each runs from the first
\* opening fence to the next fence after its content starts, and the search
\* for the next region resumes after that closing fence.
RECURSIVE RegionsFrom(_, _)
RegionsFrom(p, newline) ==
    LET O == {i \in p..Len(content) : Opens(i, newline)}
    IN  IF O = {} THEN <<>>
        ELSE LET i == Least(O)
                 c == Least(Closings(i, newline))
             IN  <<[language |-> IF TagEnd(i) > i + 3
                                 THEN SubSeq(content, i + 3, TagEnd(i) - 1)
                                 ELSE None,
                    code |-> Strip(SubSeq(content, ContentStart(i, newline),
                                          c - 1))]>>
                 \o RegionsFrom(c + 3, newline)

\* C9 as stated: code_blocks holds one entry per fenced region, a region
\* running from an opening fence, optionally followed on its line by a
\* language tag, to the next fence.
C9_BlocksOfFencedRegions ==
    ParseReturned => ret.val.code_blocks = RegionsFrom(1, FALSE)

\* C9 amended: a fence opens a region only when a newline follows it, or
\* follows the run of word characters that is its tag; the region runs to
\* the next fence after that newline.  code_blocks holds one entry per such
\* region, in document order, with the tag (or None) as language and the
\* trimmed content after the newline as code.
C9_BlocksOfNewlineRegions ==
    ParseReturned => ret.val.code_blocks = RegionsFrom(1, TRUE)

\* C9 witness: parse() has returned two code blocks, the first with the tag
\* "p" and e-acute (U+00E9) and the code "x", the second without a tag.
C9_Witness ==
    /\ ParseReturned
    /\ Len(ret.val.code_blocks) = 2
    /\ ret.val.code_blocks[1] =
          [language |-> Txt(<<"p">>) \o <<233>>, code |-> Txt(<<"x">>)]
    /\ ret.val.code_blocks[2].language = None

(***************************************************************************)
(* Links and images (SpecLinks).                                           *)
(***************************************************************************)

\* An inline link match that is not the bracket part of an image: no '!'
\* stands right before it.
NotAnImage(m) == m.start = 1 \/ content[m.start - 1] # Bang

\* C4: links holds one entry per inline link, in order of occurrence, then
\* one entry per reference-definition line; an image occurrence gives one
\* entry in images and none in links.
C4_ImagesAreNotLinks ==
    ParseReturned =>
        LET inline == SelectSeq(LinkMatches(content, 1), NotAnImage)
            images == ImageMatches(content, 1)
        IN  /\ ret.val.links =
                  [k \in 1..Len(inline) |->
                      [text |-> inline[k].group1, url |-> inline[k].group2]]
                  \o RefLinksFrom(RawLines, 1)
            /\ ret.val.images =
                  [k \in 1..Len(images) |->
                      [alt_text |-> images[k].group1,
                       url |-> images[k].group2]]

=============================================================================
